---- MODULE Spec2Model ----
(***************************************************************************)
(* Model of the HTTP download engine of package downloads:                 *)
(* HttpDownloadFile (negotiation, start, resume, read loop), the reader    *)
(* stages FixedLengthReader and RateLimitedIO, parseContentRange, and the  *)
(* HttpDownloadTask sequencing (_start / Start / onFileCompleted).         *)
(*                                                                         *)
(* A resource is Size bytes long and byte k of a resource has value k, so  *)
(* the destination file holds, per offset, the index of the resource byte  *)
(* that was written there (-1 for a hole).                                 *)
(***************************************************************************)
EXTENDS Integers, Sequences, FiniteSets, Bags, TLC

\* ---------------------------------------------------------------- bounds
NFiles == 3
Size == 2
BufSize == 2
MaxStarts == 2
MaxLive == 2
MaxRate == 1

\* ------------------------------------------------------------- constants
StatusQueued == "queued"
StatusPaused == "paused"
StatusStopped == "stopped"
StatusStarted == "started"
StatusCompleted == "completed"
StatusFailed == "failed"

StatusPartialContent == 206

Nil == "nil"
EOF == "EOF"
ErrUnexpectedEOF == "unexpected EOF"
ErrRequest == "request error"
ErrStatusCode == "http download failed with status code"
ErrContentRange == "invalid content-range format"
ErrOpen == "open error"
ErrSeek == "seek error"
ErrWrite == "write error"
ErrRead == "read error"
ErrBurst == "rate: Wait(n) exceeds limiter's burst"

Min(a, b) == IF a < b THEN a ELSE b
Max(a, b) == IF a > b THEN a ELSE b

Files == 1..NFiles
RateLimits == 0..MaxRate

VARIABLES
    dtStatus,    \* HttpDownloadTask.Status
    dtError,     \* HttpDownloadTask.Error
    dtRateLimit, \* HttpDownloadTask.rateLimit
    dtDownloaded, \* HttpDownloadTask.Downloaded
    dtTotal,     \* HttpDownloadTask.Total
    ctor,        \* construction of the Task's Files: "building", "ready", "aborted"
    files,       \* HttpDownloadTask.Files: the HttpDownloadFile objects
    disk,        \* contents of the destination files
    th,          \* the calls of Start and the goroutines of startDownload in flight
    nStarts,     \* number of Start calls that entered _start
    ret,         \* the value returned by the call that completed in the last step
    srv,         \* the HTTP server the resources are on
    fault,       \* a panic raised in a read loop: "none", "recovered" or "crashed"
    parse,       \* parseContentRange at work: its argument and its result
    flr,         \* a FixedLengthReader over a source, and what its last Read returned
    lim,         \* a SpeedLimiter, the RateLimitedIO.Read waiting on it, the bytes admitted
    state,       \* the HttpDownloadState of package main
    goroutines   \* the goroutines its Start has launched

vars ==
    <<dtStatus, dtError, dtRateLimit, dtDownloaded, dtTotal, ctor, files, disk, th, nStarts,
      ret, srv>>
\* the variables the Task's operations leave alone
others == <<fault, parse, flr, lim, state, goroutines>>

\* ------------------------------------------------- Content-Range parsing
\* A header value is a sequence of tokens: the literal "bytes ", a run of
\* digits (with its value), "-", "/", "*", or anything else ("junk").
Tok(k, v) == [k |-> k, v |-> v]
NoGroup == [present |-> FALSE, v |-> 0]
Group(v) == [present |-> TRUE, v |-> v]
IsTok(s, p, k) == p <= Len(s) /\ s[p].k = k

\* contentRangeRe.FindStringSubmatch:
\*   ^bytes (?:(range_start\d+)?-(range_end\d+)?|\*)(?:/(size\d+)|/\*$)?
contentRangeReTail(s, q, st, en) ==
    IF IsTok(s, q, "/") /\ IsTok(s, q + 1, "num")
    THEN [matched |-> TRUE, range_start |-> st, range_end |-> en, size |-> Group(s[q + 1].v)]
    ELSE [matched |-> TRUE, range_start |-> st, range_end |-> en, size |-> NoGroup]

contentRangeRe(s) ==
    IF ~IsTok(s, 1, "bytes ")
    THEN [matched |-> FALSE, range_start |-> NoGroup, range_end |-> NoGroup, size |-> NoGroup]
    ELSE LET hasStart == IsTok(s, 2, "num")
             pDash == IF hasStart THEN 3 ELSE 2
             hasEnd == IsTok(s, pDash + 1, "num")
         IN  IF IsTok(s, pDash, "-")
             THEN contentRangeReTail(s, IF hasEnd THEN pDash + 2 ELSE pDash + 1,
                                     IF hasStart THEN Group(s[2].v) ELSE NoGroup,
                                     IF hasEnd THEN Group(s[pDash + 1].v) ELSE NoGroup)
             ELSE IF IsTok(s, 2, "*")
             THEN contentRangeReTail(s, 3, NoGroup, NoGroup)
             ELSE [matched |-> FALSE, range_start |-> NoGroup, range_end |-> NoGroup, size |-> NoGroup]

\* strconv.Atoi with the error dropped: the empty string gives 0
Atoi(g) == IF g.present THEN g.v ELSE 0

\* reGetNamedGroups puts every named group in the map, matched or not, so
\* the lookups of parseContentRange always find their key.
reGetNamedGroups(m) ==
    [range_start |-> [ok |-> TRUE, val |-> m.range_start],
     range_end   |-> [ok |-> TRUE, val |-> m.range_end],
     size        |-> [ok |-> TRUE, val |-> m.size]]

parseContentRange(s) ==
    LET m == contentRangeRe(s)
        vals == reGetNamedGroups(m)
    IN  IF ~m.matched
        THEN [err |-> ErrContentRange, rangeStart |-> 0, rangeEnd |-> 0, size |-> 0]
        ELSE [err |-> Nil,
              rangeStart |-> IF vals.range_start.ok THEN Atoi(vals.range_start.val) ELSE 0,
              rangeEnd   |-> IF vals.range_end.ok THEN Atoi(vals.range_end.val) ELSE -1,
              size       |-> IF vals.size.ok THEN Atoi(vals.size.val) ELSE -1]

\* ------------------------------------------------------------ the server
NoResp == [kind |-> "none"]
NetErr == [kind |-> "neterr"]
Resp(code, cl, ar, cr, start, bodyLen) ==
    [kind |-> "resp", StatusCode |-> code, ContentLength |-> cl, AcceptRanges |-> ar,
     ContentRange |-> cr, start |-> start, bodyLen |-> bodyLen]

ContentRangeOf(start) ==
    <<Tok("bytes ", 0), Tok("num", start), Tok("-", 0), Tok("num", Size - 1),
      Tok("/", 0), Tok("num", Size)>>

\* what http.DefaultClient.Do can give back for a request with the given
\* Range offset (-1: no Range header); head: a HEAD request, without a body
\* srv: whether the server announces Accept-Ranges: bytes and whether it
\* sends a Content-Length (-1 stands for an unknown length)
Responses(range, head) ==
    LET start == IF range >= 0 THEN Min(range, Size) ELSE 0
        full == Size - start
    IN  {NetErr}
        \cup {Resp(404, 0, FALSE, <<>>, 0, 0)}
        \cup {Resp(200, IF srv.knownLen THEN Size ELSE -1, srv.acceptRanges, <<>>, 0,
                   IF head THEN 0 ELSE Size)}
        \cup {Resp(StatusPartialContent, IF srv.knownLen THEN full ELSE -1, srv.acceptRanges,
                   ContentRangeOf(start), start, bl) :
                 bl \in IF head THEN {0} ELSE {full, Max(0, full - 1)}}

\* ------------------------------------------------------ HttpDownloadFile
AbsentFile ==
    [status |-> "absent", err |-> Nil, Downloaded |-> 0, Total |-> 0, resumable |-> FALSE,
     partSize |-> 0, fileOff |-> -1, rateLimit |-> 0]

setError(f, err) ==
    [f EXCEPT !.err = err, !.status = IF err /= Nil THEN StatusFailed ELSE @]

parsePartialResponse(f, resp) ==
    IF resp.StatusCode /= StatusPartialContent
    THEN [err |-> ErrStatusCode, f |-> f]
    ELSE LET parseResult == parseContentRange(resp.ContentRange)
         IN  IF parseResult.err /= Nil
             THEN [err |-> parseResult.err, f |-> f]
             ELSE [err |-> Nil, f |-> [f EXCEPT !.Total = parseResult.size]]

\* parseResponse with its first test the other way round: 206 goes to
\* parsePartialResponse, every other 2xx restarts the File from zero
parseResponse_Restart(f, resp) ==
    IF resp.StatusCode = StatusPartialContent
    THEN parsePartialResponse(f, resp)
    ELSE IF resp.StatusCode < 200 \/ resp.StatusCode >= 300
    THEN [err |-> ErrStatusCode, f |-> f]
    ELSE [err |-> Nil,
          f |-> [f EXCEPT !.resumable = IF resp.AcceptRanges THEN TRUE ELSE @,
                          !.Total = resp.ContentLength,
                          !.Downloaded = 0,
                          !.partSize = resp.ContentLength]]

parseResponse(f, resp) ==
    IF resp.StatusCode /= StatusPartialContent
    THEN parsePartialResponse(f, resp)
    ELSE IF resp.StatusCode < 200 \/ resp.StatusCode >= 300
    THEN [err |-> ErrStatusCode, f |-> f]
    ELSE [err |-> Nil,
          f |-> [f EXCEPT !.resumable = IF resp.AcceptRanges THEN TRUE ELSE @,
                          !.Total = resp.ContentLength,
                          !.Downloaded = 0,
                          !.partSize = resp.ContentLength]]

\* fs: the outcome of the file system calls, Nil, ErrOpen or ErrSeek
makeFile(f, fs) ==
    IF fs /= Nil
    THEN [err |-> fs, f |-> f]
    ELSE [err |-> Nil, f |-> [f EXCEPT !.fileOff = f.Downloaded]]

makeRequest(f) == [method |-> "GET", range |-> -1]
\* makePartialRequest asking for the part size instead of the offset reached
makePartialRequest_PartSize(f) == [method |-> "GET", range |-> f.partSize]
makePartialRequest(f) == [method |-> "GET", range |-> f.Downloaded]
makeHeadRequest(f) == [method |-> "HEAD", range |-> -1]

\* startDownloading after its request came back with resp
startDownloading(f, resp, fs) ==
    IF resp = NetErr
    THEN [err |-> ErrRequest, f |-> f]
    ELSE LET p == parseResponse(f, resp)
         IN  IF p.err /= Nil
             THEN [err |-> p.err, f |-> p.f]
             ELSE LET m == makeFile(p.f, fs)
                  IN  IF m.err /= Nil
                      THEN [err |-> m.err, f |-> m.f]
                      ELSE [err |-> Nil, f |-> [m.f EXCEPT !.status = StatusStarted]]

\* the request resumeDownloading sends: a Range request, or the plain
\* request of startDownloading
resumeRequest(f) ==
    IF ~f.resumable \/ f.Downloaded = 0
    THEN makeRequest(f)
    ELSE makePartialRequest(f)

\* resumeDownloading after its request came back with resp
resumeDownloading(f, req, resp, fs) ==
    IF req.range < 0
    THEN startDownloading(f, resp, fs)
    ELSE IF resp = NetErr
    THEN [err |-> ErrRequest, f |-> f]
    ELSE LET p == parseResponse(f, resp)
         IN  IF p.err /= Nil
             THEN [err |-> p.err, f |-> p.f]
             ELSE LET m == makeFile(p.f, fs)
                  IN  IF m.err /= Nil
                      THEN [err |-> m.err, f |-> m.f]
                      ELSE [err |-> Nil, f |-> [m.f EXCEPT !.status = StatusStarted]]

\* ---------------------------------------------------------- reader stages
\* resp.Body.Read(b): up to len(b) of the avail bytes left in the body
BodyReads(avail) ==
    {[n |-> n, err |-> Nil] : n \in 1..Min(BufSize, avail)}
    \cup {[n |-> n, err |-> EOF] : n \in {k \in 0..BufSize : k = avail}}
    \cup {[n |-> 0, err |-> ErrRead]}

\* FixedLengthReader.Read without its cut of n to the length left
FixedLengthReaderRead_NoCut(length, rd) ==
    LET n == rd.n
        len1 == length - n
        err1 == IF rd.err = EOF /\ len1 > 0 THEN ErrUnexpectedEOF ELSE rd.err
        err2 == IF len1 <= 0 THEN EOF ELSE err1
    IN  [n |-> n, err |-> err2, length |-> len1]

FixedLengthReaderRead(length, rd) ==
    LET n == IF rd.n > length THEN length ELSE rd.n
        len1 == length - n
        err1 == IF rd.err = EOF /\ len1 > 0 THEN ErrUnexpectedEOF ELSE rd.err
        err2 == IF len1 <= 0 THEN EOF ELSE err1
    IN  [n |-> n, err |-> err2, length |-> len1]

\* rate.Limiter.WaitN: immediate for rate.Inf, an error when n exceeds the burst
WaitN(bytesPerSec, n) ==
    IF bytesPerSec /= 0 /\ n > bytesPerSec THEN ErrBurst ELSE Nil

RateLimitedIORead(bytesPerSec, rd) ==
    IF rd.err /= Nil
    THEN [n |-> rd.n, err |-> rd.err]
    ELSE [n |-> rd.n, err |-> WaitN(bytesPerSec, rd.n)]

\* os.File.Write of the resource bytes from, from+1, .. at offset off
FileWrite(d, off, from, n) ==
    [k \in 1..Max(Len(d), off + n) |->
        IF k - 1 >= off /\ k - 1 < off + n THEN from + (k - 1 - off)
        ELSE IF k <= Len(d) THEN d[k] ELSE -1]

\* --------------------------------------------------------------- threads
\* th is the bag of the activities in flight: a call of Start waiting for its
\* request (pc "await", file 0), and the goroutines `go f.startDownload(resp)`
\* of a File (file > 0): launched ("new"), in the read loop ("run"), or inside
\* onFileCompleted waiting for the request of the next File ("await").
Await(own, tgt, req, mode) ==
    [pc |-> "await", file |-> own, length |-> 0, pos |-> 0, avail |-> 0,
     tgt |-> tgt, range |-> req.range, mode |-> mode]

\* the goroutine `go f.startDownload(resp)` of File i, holding resp.Body
NewLoop(i, range, resp) ==
    [pc |-> "new", file |-> i, length |-> 0, pos |-> resp.start, avail |-> resp.bodyLen,
     tgt |-> 0, range |-> range, mode |-> "none"]

One(r) == SetToBag({r})
NoParse == [input |-> <<>>, done |-> FALSE, err |-> Nil, rangeStart |-> 0, rangeEnd |-> 0, size |-> 0]
NoReader ==
    [target |-> 0, length |-> 0, avail |-> 0, delivered |-> 0, calls |-> 0,
     n |-> 0, err |-> Nil, srcN |-> 0, srcErr |-> Nil]
\* package main: the Status values (Paused and Completed are both 2)
Waiting == 0
Started == 1
Paused == 2
Completed == 2
Error == 3
StopReadingErr == "stop reading from buffer"
NoLast == [op |-> "none", g |-> 0, n |-> 0, err |-> Nil]
\* NewHttpDownloadState; open: the handles of os.OpenFile not closed, last:
\* what the call that returned in the last step returned
NoState ==
    [status |-> Waiting, err |-> Nil, size |-> 0, downloaded |-> 0, resumable |-> FALSE,
     left |-> 0, paused |-> FALSE, open |-> 0, last |-> NoLast]
NoLimiter ==
    [limit |-> 0, burst |-> 0, tokens |-> 0, pc |-> "idle", n |-> 0, hist |-> <<>>,
     out |-> "none", set |-> -1, seen |-> <<0, 0>>]
NoRet == [op |-> "none", file |-> 0, err |-> Nil, range |-> -1, resp |-> NoResp]

Init ==
    /\ dtStatus = StatusQueued
    /\ dtError = Nil
    /\ dtRateLimit \in RateLimits
    /\ dtDownloaded = 0
    /\ dtTotal = 0
    /\ ctor = "building"
    /\ files = [i \in Files |-> AbsentFile]
    /\ disk = [i \in Files |-> <<>>]
    /\ th = EmptyBag
    /\ nStarts = 0
    /\ ret = NoRet
    /\ srv \in [acceptRanges : BOOLEAN, knownLen : BOOLEAN]
    /\ fault = "none"
    /\ parse = NoParse
    /\ flr = NoReader
    /\ lim = NoLimiter
    /\ state = NoState
    /\ goroutines = <<>>

\* NewHttpDownloadFile for the next resource of the Task; a caller that gets
\* an error back gives up building the Task
NewHttpDownloadFile ==
    /\ ctor = "building"
    /\ LET i == CHOOSE k \in Files : files[k].status = "absent" /\
                    \A j \in Files : j < k => files[j].status /= "absent"
           f0 == [AbsentFile EXCEPT !.status = StatusQueued, !.rateLimit = dtRateLimit]
       IN  \E resp \in Responses(makeHeadRequest(f0).range, TRUE) :
              LET r == IF resp = NetErr
                       THEN [err |-> ErrRequest, f |-> setError(f0, ErrRequest)]
                       ELSE parseResponse(f0, resp)
              IN  /\ files' = [files EXCEPT ![i] = r.f]
                  /\ ctor' = IF r.err /= Nil THEN "aborted"
                             ELSE IF i = NFiles THEN "ready" ELSE "building"
                  /\ ret' = [op |-> "negotiate", file |-> i, err |-> r.err,
                             range |-> -1, resp |-> resp]
    /\ UNCHANGED <<dtStatus, dtError, dtRateLimit, disk, th, nStarts, srv>>
    /\ UNCHANGED <<dtDownloaded, dtTotal, others>>

\* the first File of dt.Files that is not Completed, 0 when there is none
startTarget(fs) ==
    LET P == {i \in Files : fs[i].status /= StatusCompleted}
    IN  IF P = {} THEN 0 ELSE CHOOSE i \in P : \A j \in P : i <= j

\* the activity of File own (0: a caller of Start) comes back from _start: a
\* goroutine is back in download (from onFileCompleted), which returns nil
\* to startDownload, which calls setError(nil) and ends
onFileCompleted(own, fs) ==
    IF own /= 0 THEN [fs EXCEPT ![own] = setError(@, Nil)] ELSE fs

\* _start up to the request of startDownloading / resumeDownloading, run by
\* the activity of File own; rest: the other activities
_start(own, rest, fs) ==
    LET i == startTarget(fs)
    IN  IF i = 0
        THEN /\ dtStatus' = StatusCompleted
             /\ files' = onFileCompleted(own, fs)
             /\ th' = rest
             /\ ret' = NoRet
             /\ UNCHANGED dtError
        ELSE LET mode == IF dtStatus = StatusPaused THEN "resume" ELSE "start"
                 req == IF mode = "resume" THEN resumeRequest(fs[i]) ELSE makeRequest(fs[i])
             IN  /\ th' = rest (+) One(Await(own, i, req, mode))
                 /\ files' = fs
                 /\ ret' = NoRet
                 /\ UNCHANGED <<dtStatus, dtError>>

\* HttpDownloadTask.Start
Start ==
    /\ ctor = "ready"
    /\ IF dtStatus /= StatusStarted /\ dtStatus /= StatusCompleted
       THEN /\ nStarts < MaxStarts
            /\ BagCardinality(th) < MaxLive
            /\ nStarts' = nStarts + 1
            /\ _start(0, th, files)
            /\ UNCHANGED <<dtRateLimit, ctor, disk, srv>>
       ELSE /\ ret' = NoRet
            /\ UNCHANGED <<dtStatus, dtError, dtRateLimit, ctor, files, disk, th, nStarts, srv>>
    /\ UNCHANGED <<dtDownloaded, dtTotal, others>>

\* the request of an activity r comes back: the rest of startDownloading or
\* resumeDownloading, then the rest of _start
HttpResponse ==
    /\ \E r \in BagToSet(th) :
          /\ r.pc = "await"
          /\ \E resp \in Responses(r.range, FALSE), fs \in {Nil, ErrOpen, ErrSeek} :
                LET i == r.tgt
                    req == [method |-> "GET", range |-> r.range]
                    res == IF r.mode = "resume"
                           THEN resumeDownloading(files[i], req, resp, fs)
                           ELSE startDownloading(files[i], resp, fs)
                IN  /\ dtStatus' = IF res.err /= Nil THEN StatusCompleted ELSE StatusStarted
                    /\ dtError' = IF res.err /= Nil THEN res.err ELSE dtError
                    /\ files' = onFileCompleted(r.file, [files EXCEPT ![i] = res.f])
                    /\ th' = IF res.err = Nil
                             THEN (th (-) One(r)) (+) One(NewLoop(i, r.range, resp))
                             ELSE th (-) One(r)
                    /\ ret' = [op |-> r.mode, file |-> i, err |-> res.err,
                               range |-> r.range, resp |-> resp]
    /\ UNCHANGED <<dtRateLimit, ctor, disk, nStarts, srv>>
    /\ UNCHANGED <<dtDownloaded, dtTotal, others>>

\* a goroutine r starts running download: the reader stack is built
startDownload ==
    /\ \E r \in BagToSet(th) :
          /\ r.pc = "new"
          /\ LET f == files[r.file]
             IN  th' = (th (-) One(r)) (+)
                       One([r EXCEPT !.pc = "run", !.length = f.Total - f.Downloaded])
    /\ ret' = NoRet
    /\ UNCHANGED <<dtStatus, dtError, dtRateLimit, ctor, files, disk, nStarts, srv>>
    /\ UNCHANGED <<dtDownloaded, dtTotal, others>>

\* one iteration of the read loop of download in a goroutine r, up to its
\* return
download ==
    /\ \E r \in BagToSet(th) :
          /\ r.pc = "run"
          /\ LET i == r.file
             IN  IF files[i].status /= StatusStarted
                 THEN /\ files' = [files EXCEPT ![i] = setError(@, Nil)]
                      /\ th' = th (-) One(r)
                      /\ ret' = NoRet
                      /\ UNCHANGED <<dtStatus, dtError, disk>>
                 ELSE \E rd \in BodyReads(r.avail), werr \in {Nil, ErrWrite} :
                         LET fl == FixedLengthReaderRead(r.length, rd)
                             rl == RateLimitedIORead(files[i].rateLimit, fl)
                         IN  IF rl.err = EOF
                             THEN /\ _start(i, th (-) One(r),
                                            [files EXCEPT ![i].status = StatusCompleted])
                                  /\ UNCHANGED disk
                             ELSE IF rl.err /= Nil \/ werr /= Nil
                             THEN /\ files' = [files EXCEPT ![i] =
                                        setError(@, IF rl.err /= Nil THEN rl.err ELSE werr)]
                                  /\ th' = th (-) One(r)
                                  /\ ret' = NoRet
                                  /\ UNCHANGED <<dtStatus, dtError, disk>>
                             ELSE /\ disk' = [disk EXCEPT ![i] =
                                        FileWrite(@, files[i].fileOff, r.pos, rl.n)]
                                  /\ files' = [files EXCEPT ![i].Downloaded = @ + rl.n,
                                                            ![i].fileOff = @ + rl.n]
                                  /\ th' = (th (-) One(r)) (+)
                                           One([r EXCEPT !.length = fl.length,
                                                         !.pos = @ + rd.n,
                                                         !.avail = @ - rd.n])
                                  /\ ret' = NoRet
                                  /\ UNCHANGED <<dtStatus, dtError>>
    /\ UNCHANGED <<dtRateLimit, ctor, nStarts, srv>>
    /\ UNCHANGED <<dtDownloaded, dtTotal, others>>

\* Pause of the Task: the Task and its active File become Paused
Pause ==
    /\ dtStatus = StatusStarted
    /\ dtStatus' = StatusPaused
    /\ files' = [i \in Files |-> IF files[i].status = StatusStarted
                                 THEN [files[i] EXCEPT !.status = StatusPaused]
                                 ELSE files[i]]
    /\ ret' = NoRet
    /\ UNCHANGED <<dtError, dtRateLimit, ctor, disk, th, nStarts, srv>>
    /\ UNCHANGED <<dtDownloaded, dtTotal, others>>

Next ==
    \/ NewHttpDownloadFile
    \/ Start
    \/ HttpResponse
    \/ startDownload
    \/ download
    \/ Pause

Spec == Init /\ [][Next]_vars

\* ----------------------------------------------------------------- claims
Created(i) == files[i].status /= "absent"
Is2xx(code) == code >= 200 /\ code < 300
\* the read loops of File i: the goroutines launched and not yet returned
ActiveLoops(i) ==
    LET S == {r \in BagToSet(th) : r.pc \in {"new", "run"} /\ r.file = i}
    IN  [r \in S |-> CopiesIn(r, th)]

\* C1: a File whose status is Completed has a nil error and, when its Total
\* is known (>= 0), Downloaded = Total: the bytes of the final chunk are
\* counted before the File is marked Completed.
C1_CompletedIsWhole ==
    \A i \in Files :
        files[i].status = StatusCompleted =>
            /\ files[i].err = Nil
            /\ files[i].Total >= 0 => files[i].Downloaded = files[i].Total

\* C2: after a resume from offset d > 0 that was answered with 206, when the
\* read loop is about to start, Downloaded is still d, the destination file
\* is positioned at offset d, the bytes still expected are the resource's
\* size minus d, and every byte written is at the offset of its index.
C2_ResumeKeepsOffset ==
    \A r \in BagToSet(th) :
        r.pc = "new" /\ r.range > 0 =>
            LET i == r.file
            IN  /\ files[i].Downloaded = r.range
                /\ files[i].fileOff = r.range
                /\ files[i].Total >= 0 => files[i].Total - files[i].Downloaded = Size - r.range
                /\ \A k \in 1..Len(disk[i]) : disk[i][k] \in {-1, k - 1}

\* C3: when a File fails, at its start inside _start or later in its read
\* loop, the Task is Failed with that File's error, the File is Failed, and
\* every later File is still Queued.
C3_FailureFailsTask ==
    /\ ret.op \in {"start", "resume"} /\ ret.err /= Nil =>
          /\ dtStatus = StatusFailed
          /\ dtError = ret.err
          /\ files[ret.file].status = StatusFailed
          /\ \A j \in Files : j > ret.file => files[j].status = StatusQueued
    /\ \A i \in Files :
          ctor = "ready" /\ files[i].status = StatusFailed =>
              /\ dtStatus = StatusFailed
              /\ dtError = files[i].err
              /\ \A j \in Files : j > i => files[j].status = StatusQueued

\* C4: a negotiate, start or resume call that returns an error leaves its
\* File Failed with that error retained in the File.
C4_FailureRetained ==
    ret.err /= Nil =>
        /\ files[ret.file].status = StatusFailed
        /\ files[ret.file].err = ret.err

\* C5: a File is Failed exactly when its error is non-nil.
C5_FailedIffError ==
    \A i \in Files :
        Created(i) => (files[i].status = StatusFailed <=> files[i].err /= Nil)

\* C6: on a negotiation without a Range header (the HEAD request of
\* NewHttpDownloadFile, the GET of startDownloading) a 2xx response is not
\* rejected for its status: Total is its Content-Length, Downloaded is 0 and
\* the File is resumable when Accept-Ranges is bytes; any other status is
\* rejected.
C6_Accepts2xx ==
    ret.op /= "none" /\ ret.range < 0 /\ ret.resp.kind = "resp" =>
        IF Is2xx(ret.resp.StatusCode)
        THEN /\ ret.err \in {Nil, ErrOpen, ErrSeek}
             /\ files[ret.file].Total = ret.resp.ContentLength
             /\ files[ret.file].Downloaded = 0
             /\ ret.resp.AcceptRanges => files[ret.file].resumable
        ELSE ret.err = ErrStatusCode

\* C7: when a Range request of resumeDownloading is answered with a status
\* other than 206, the call returns an error, launches no read loop, leaves
\* Downloaded as it was and writes nothing.
C7_ResumeNeeds206 ==
    [][ret'.op = "resume" /\ ret'.range >= 0 /\ ret'.resp.kind = "resp"
           /\ ret'.resp.StatusCode /= StatusPartialContent =>
          /\ ret'.err /= Nil
          /\ files'[ret'.file].Downloaded = files[ret'.file].Downloaded
          /\ files'[ret'.file].status = files[ret'.file].status
          /\ disk' = disk
          /\ \A i \in Files : BagCardinality(ActiveLoops(i)') <= BagCardinality(ActiveLoops(i))]_vars

C7_Witness ==
    /\ ret.op = "resume" /\ ret.range > 0 /\ ret.resp.kind = "resp"
    /\ Is2xx(ret.resp.StatusCode)
    /\ ret.err /= Nil
    /\ files[ret.file].Downloaded = ret.range

\* C8: a resume of a File that is resumable and has Downloaded = d > 0
\* sends a GET with Range: bytes=d-, for the d of the instant of the call;
\* a resume of any other File sends a GET without a Range header.
C8_RangeIsDownloaded ==
    [][\A r \in BagToSet(th') :
          r.pc = "await" /\ r.mode = "resume" /\ CopiesIn(r, th') > CopiesIn(r, th) =>
              LET f == files[r.tgt]
              IN  IF f.resumable /\ f.Downloaded > 0
                  THEN r.range = f.Downloaded
                  ELSE r.range = -1]_vars

C8_Witness ==
    \E r \in BagToSet(th) :
        /\ r.pc = "await" /\ r.mode = "resume"
        /\ r.range > 0
        /\ files[r.tgt].resumable
        /\ files[r.tgt].Downloaded = r.range

\* C9: Files are transferred in order, one at a time: a File is started
\* only when every earlier File is Completed, and the Task is Completed only
\* when no File that is not Completed remains.
C9_InOrder ==
    /\ \A r \in BagToSet(th) :
          r.pc = "await" => \A j \in Files : j < r.tgt => files[j].status = StatusCompleted
    /\ \A i \in Files :
          files[i].status = StatusStarted =>
              \A j \in Files : j < i => files[j].status = StatusCompleted
    /\ dtStatus = StatusCompleted => \A i \in Files : files[i].status = StatusCompleted

\* C10: at most one read loop is active for a File at any time.
C10_OneLoopPerFile ==
    \A i \in Files : BagCardinality(ActiveLoops(i)) <= 1

\* ------------------------------------------- the Task at rest, untouched
TaskIdle ==
    /\ dtStatus = StatusQueued
    /\ dtError = Nil
    /\ dtRateLimit = 0
    /\ dtDownloaded = 0
    /\ dtTotal = 0
    /\ ctor = "building"
    /\ files = [i \in Files |-> AbsentFile]
    /\ disk = [i \in Files |-> <<>>]
    /\ th = EmptyBag
    /\ nStarts = 0
    /\ ret = NoRet
    /\ srv = [acceptRanges |-> TRUE, knownLen |-> TRUE]

\* ------------------------------------------------ parseContentRange alone
\* the header values parseContentRange is tried on: the token sequences of at
\* most MaxToks tokens in which no two runs of digits are adjacent
MaxToks == 6
MaxNum == 1

Toks ==
    {Tok(k, 0) : k \in {"bytes ", "-", "/", "*", "junk"}}
    \cup {Tok("num", v) : v \in 0..MaxNum}

Headers ==
    {s \in UNION {[1..n -> Toks] : n \in 0..MaxToks} :
        \A p \in 1..(Len(s) - 1) : ~(s[p].k = "num" /\ s[p + 1].k = "num")}

InitParse ==
    /\ TaskIdle
    /\ fault = "none"
    /\ flr = NoReader
    /\ lim = NoLimiter
    /\ state = NoState
    /\ goroutines = <<>>
    /\ parse \in {[NoParse EXCEPT !.input = s] : s \in Headers}

ParseContentRange ==
    /\ ~parse.done
    /\ LET r == parseContentRange(parse.input)
       IN  parse' = [input |-> parse.input, done |-> TRUE, err |-> r.err,
                     rangeStart |-> r.rangeStart, rangeEnd |-> r.rangeEnd, size |-> r.size]
    /\ UNCHANGED <<vars, fault, flr, lim, state, goroutines>>

NextParse ==
    \/ ParseContentRange

SpecParse == InitParse /\ [][NextParse]_<<vars, others>>

\* the grammar bytes (<start>-<end>|*)/(<size>|*)
IsSizePart(s, p) == Len(s) = p + 1 /\ s[p].k = "/" /\ s[p + 1].k \in {"num", "*"}
IsRangeHeader(s) ==
    /\ Len(s) = 6
    /\ s[1].k = "bytes " /\ s[2].k = "num" /\ s[3].k = "-" /\ s[4].k = "num"
    /\ IsSizePart(s, 5)
IsWildcardHeader(s) ==
    /\ Len(s) = 4
    /\ s[1].k = "bytes " /\ s[2].k = "*"
    /\ IsSizePart(s, 3)
SizeOf(t) == IF t.k = "num" THEN t.v ELSE -1

\* C18: parseContentRange follows the grammar bytes (<start>-<end>|*)/(<size>|*):
\* a header "bytes a-b/c" gives rangeStart a, rangeEnd b and size c; a header
\* "bytes */c" gives rangeEnd -1 and size c; a wildcard size gives size -1;
\* every header outside the grammar gives a parse error.
C18_ParseContentRange ==
    parse.done =>
        LET s == parse.input
        IN  IF IsRangeHeader(s)
            THEN /\ parse.err = Nil
                 /\ parse.rangeStart = s[2].v
                 /\ parse.rangeEnd = s[4].v
                 /\ parse.size = SizeOf(s[6])
            ELSE IF IsWildcardHeader(s)
            THEN /\ parse.err = Nil
                 /\ parse.rangeEnd = -1
                 /\ parse.size = SizeOf(s[4])
            ELSE parse.err /= Nil

\* ------------------------------------------------ FixedLengthReader alone
\* NewFixedLengthReader(r, l) for a length l of 0..MaxLen over a source r
\* that has 0..MaxAvail bytes to give; MaxReads calls of Read are followed
MaxLen == 3
MaxAvail == 3
MaxReads == 3

InitReader ==
    /\ TaskIdle
    /\ fault = "none"
    /\ parse = NoParse
    /\ lim = NoLimiter
    /\ state = NoState
    /\ goroutines = <<>>
    /\ \E l \in 0..MaxLen, a \in 0..MaxAvail :
          flr = [NoReader EXCEPT !.target = l, !.length = l, !.avail = a]

\* one call of FixedLengthReader.Read; rd is what the source's Read returns
FixedLengthReaderReadCall ==
    /\ flr.calls < MaxReads
    /\ \E rd \in BodyReads(flr.avail) :
          LET r == FixedLengthReaderRead(flr.length, rd)
          IN  flr' = [flr EXCEPT !.length = r.length,
                               !.avail = @ - rd.n,
                               !.delivered = @ + r.n,
                               !.calls = @ + 1,
                               !.n = r.n,
                               !.err = r.err,
                               !.srcN = rd.n,
                               !.srcErr = rd.err]
    /\ UNCHANGED <<vars, fault, parse, lim, state, goroutines>>

NextReader ==
    \/ FixedLengthReaderReadCall

SpecReader == InitReader /\ [][NextReader]_<<vars, others>>

\* C16: a FixedLengthReader of length L >= 0 returns at most L bytes in all
\* and never a negative count; when its source ends before L bytes were
\* delivered it reports io.ErrUnexpectedEOF; it reports io.EOF only when
\* exactly L bytes have been delivered.
C16_FixedLength ==
    flr.calls > 0 =>
        /\ flr.delivered <= flr.target
        /\ flr.n >= 0
        /\ flr.srcErr = EOF /\ flr.delivered < flr.target => flr.err = ErrUnexpectedEOF
        /\ flr.err = EOF => flr.delivered = flr.target

\* the source gave more than the length left, and the Read after the source
\* ended early
C16_Witness ==
    /\ flr.calls > 1
    /\ flr.srcN > flr.n
    /\ flr.err = EOF
    /\ flr.delivered = flr.target
    /\ flr.target > 0

\* ------------------------------------------- further claims on the Task
\* f.file holds the handle makeFile opened: nothing in the package closes it
FileOpen(f) == f.fileOff >= 0

\* C13: the destination file handle of a transfer attempt is closed on every
\* exit path: once no read loop of a File is active and no call is starting
\* or resuming it, the File holds no open handle.
C13_HandleClosed ==
    \A i \in Files :
        /\ BagCardinality(ActiveLoops(i)) = 0
        /\ \A r \in BagToSet(th) : r.pc = "await" => r.tgt /= i
        => ~FileOpen(files[i])

\* C14: Downloaded of a File never decreases, except where a start or a
\* resume sets it anew: a resume answered with 206 sets it to the offset it
\* asked for (the start of the Content-Range), a transfer from the beginning
\* sets it to 0.
C14_DownloadedMonotonic ==
    [][\A i \in Files :
          files'[i].Downloaded < files[i].Downloaded =>
              /\ ret'.op \in {"start", "resume"}
              /\ ret'.file = i
              /\ files'[i].Downloaded = IF ret'.range >= 0 THEN ret'.range ELSE 0]_vars

\* ------------------------------------------- a panic inside a read loop
\* the values a panic inside download can carry: an error (a runtime.Error,
\* or an error passed to panic) or a value that is no error (a string)
ErrPanic == "runtime error"
PanicValues == {[isError |-> TRUE, err |-> ErrPanic], [isError |-> FALSE, err |-> Nil]}

\* download of a goroutine r panics with v; the deferred function of
\* startDownload recovers v and calls f.setError(err.(error)): for a v that
\* is no error the type assertion panics in turn, inside the deferred
\* function, and the process dies with every goroutine
downloadPanic ==
    /\ fault /= "crashed"
    /\ \E r \in BagToSet(th), v \in PanicValues :
          /\ r.pc = "run"
          /\ IF v.isError
             THEN /\ files' = [files EXCEPT ![r.file] = setError(@, v.err)]
                  /\ th' = th (-) One(r)
                  /\ fault' = "recovered"
             ELSE /\ files' = files
                  /\ th' = EmptyBag
                  /\ fault' = "crashed"
          /\ ret' = [op |-> "panic", file |-> r.file, err |-> v.err,
                     range |-> -1, resp |-> NoResp]
    /\ UNCHANGED <<dtStatus, dtError, dtRateLimit, dtDownloaded, dtTotal, ctor, disk, nStarts,
                   srv, parse, flr, lim, state, goroutines>>

NextFault ==
    \/ fault /= "crashed" /\ NewHttpDownloadFile
    \/ fault /= "crashed" /\ Start
    \/ fault /= "crashed" /\ HttpResponse
    \/ fault /= "crashed" /\ startDownload
    \/ fault /= "crashed" /\ download
    \/ fault /= "crashed" /\ Pause
    \/ downloadPanic

SpecFault == Init /\ [][NextFault]_<<vars, others>>

\* C15: a panic raised inside the read loop of a File, whatever the type of
\* its value, is caught in startDownload: the File is Failed with a non-nil
\* error and the panic does not leave the goroutine.
C15_PanicNormalized ==
    ret.op = "panic" =>
        /\ fault /= "crashed"
        /\ files[ret.file].status = StatusFailed
        /\ files[ret.file].err /= Nil

\* ----------------------------------------------------- SpeedLimiter alone
\* A rate.Limiter is a token bucket: limit tokens a second (0 stands for
\* rate.Inf), at most burst tokens held. Time moves in ticks of 1/limit second,
\* the time one token takes, so 2 seconds are 2 * limit ticks.
MaxLimit == 2
MaxChunk == 2

RECURSIVE SumSeq(_)
SumSeq(s) == IF s = <<>> THEN 0 ELSE Head(s) + SumSeq(Tail(s))

\* NewSpeedLimiter with a bucket of two seconds of tokens
NewSpeedLimiter_TwoSeconds(bytesPerSec) ==
    [limit |-> bytesPerSec, burst |-> 2 * bytesPerSec, tokens |-> 2 * bytesPerSec]

\* rate.NewLimiter(rateLimit, bytesPerSec): the bucket starts full
NewSpeedLimiter(bytesPerSec) ==
    [limit |-> bytesPerSec, burst |-> bytesPerSec, tokens |-> bytesPerSec]

\* the limiter one tick later
LimiterAdvance(l) ==
    IF l.limit = 0 THEN l ELSE [l EXCEPT !.tokens = Min(l.burst, @ + 1)]

\* limiter.WaitN(context.Background(), n) up to its wait: an error when n
\* exceeds the burst of a finite limit, no wait for rate.Inf, otherwise the n
\* tokens are reserved and the call waits while the bucket is in debt
WaitNReserve(l, n) ==
    IF l.limit /= 0 /\ n > l.burst
    THEN [err |-> ErrBurst, tokens |-> l.tokens, wait |-> FALSE]
    ELSE IF l.limit = 0
    THEN [err |-> Nil, tokens |-> l.tokens, wait |-> FALSE]
    ELSE LET tokens == Min(l.burst, l.tokens)
         IN  [err |-> Nil, tokens |-> tokens - n, wait |-> tokens - n < 0]

\* hist: the bytes admitted in each of the last 2 * limit ticks, the current
\* tick last (nothing is recorded for rate.Inf)
Admit(h, n) == [h EXCEPT ![Len(h)] = @ + n]
Slide(h, w) == IF Len(h) < w THEN Append(h, 0) ELSE Append(Tail(h), 0)

InitLimiter ==
    /\ TaskIdle
    /\ fault = "none"
    /\ parse = NoParse
    /\ flr = NoReader
    /\ state = NoState
    /\ goroutines = <<>>
    /\ \E bytesPerSec \in 0..MaxLimit :
          LET l == NewSpeedLimiter(bytesPerSec)
          IN  lim = [NoLimiter EXCEPT !.limit = l.limit, !.burst = l.burst,
                                      !.tokens = l.tokens, !.hist = <<0>>]

\* RateLimitedIO.Read: the inner reader has returned n bytes and no error
RateLimitedIOReadCall ==
    /\ lim.pc = "idle"
    /\ \E n \in 1..MaxChunk :
          LET r == WaitNReserve(lim, n)
              seen == <<lim.limit, lim.burst>>
          IN  lim' = IF r.err /= Nil
                     THEN [lim EXCEPT !.out = "rejected", !.seen = seen]
                     ELSE IF r.wait
                     THEN [lim EXCEPT !.tokens = r.tokens, !.pc = "wait", !.n = n,
                                      !.out = "blocked", !.seen = seen]
                     ELSE [lim EXCEPT !.tokens = r.tokens, !.out = "admitted",
                                      !.seen = seen,
                                      !.hist = IF lim.limit = 0 THEN @ ELSE Admit(@, n)]
    /\ UNCHANGED <<vars, fault, parse, flr, state, goroutines>>

\* the wait of WaitN is over: the bucket is out of debt
WaitNReturn ==
    /\ lim.pc = "wait"
    /\ lim.tokens >= 0
    /\ lim' = [lim EXCEPT !.pc = "idle", !.n = 0, !.out = "admitted",
                          !.hist = Admit(@, lim.n)]
    /\ UNCHANGED <<vars, fault, parse, flr, state, goroutines>>

Tick ==
    /\ lim.limit /= 0
    /\ LET l == LimiterAdvance(lim)
       IN  lim' = [lim EXCEPT !.tokens = l.tokens, !.hist = Slide(@, 2 * lim.limit)]
    /\ UNCHANGED <<vars, fault, parse, flr, state, goroutines>>

NextLimiter ==
    \/ RateLimitedIOReadCall
    \/ WaitNReturn
    \/ Tick

SpecLimiter == InitLimiter /\ [][NextLimiter]_<<vars, others>>

\* SpeedLimiter.SetLimit on the limiter of a live transfer, in its two calls:
\* l.Limiter.SetLimit, which takes and releases the limiter's lock ...
SetLimit ==
    /\ lim.set = -1
    /\ \E bytesPerSec \in 0..MaxLimit :
          lim' = [lim EXCEPT !.limit = bytesPerSec, !.set = bytesPerSec]
    /\ UNCHANGED <<vars, fault, parse, flr, state, goroutines>>

\* ... and l.Limiter.SetBurst, which takes the lock again
SetBurst ==
    /\ lim.set /= -1
    /\ lim' = [lim EXCEPT !.burst = lim.set, !.set = -1]
    /\ UNCHANGED <<vars, fault, parse, flr, state, goroutines>>

NextSetLimit ==
    \/ RateLimitedIOReadCall
    \/ WaitNReturn
    \/ Tick
    \/ SetLimit
    \/ SetBurst

SpecSetLimit == InitLimiter /\ [][NextSetLimit]_<<vars, others>>

\* C20: SetLimit changes rate and capacity together: the limit and the burst
\* a WaitN reads are those of one configuration (the burst is the limit),
\* never the limit of one SetLimit with the burst of another.
C20_SetLimitAtomic ==
    lim.seen[1] = lim.seen[2]

\* C19 as claimed: with limit 0 no chunk is made to wait or rejected; with a
\* limit L > 0 at most 2 * L bytes are admitted in any 2 seconds, also when
\* the 2 seconds start with a full bucket.
C19_TwoSecondWindow ==
    /\ lim.limit = 0 => lim.out \notin {"blocked", "rejected"}
    /\ lim.limit /= 0 => SumSeq(lim.hist) <= 2 * lim.limit

\* C19 (amended): with limit 0 no chunk is made to wait or rejected; with a
\* limit L > 0 at most 4 * L bytes are admitted in any 2 seconds: the 2 * L
\* tokens two seconds add, the L tokens of a full bucket, and one chunk (of
\* at most L bytes) whose wait ended in those 2 seconds.
C19_BurstPlusWindow ==
    /\ lim.limit = 0 => lim.out \notin {"blocked", "rejected"}
    /\ lim.limit /= 0 => SumSeq(lim.hist) <= 4 * lim.limit

\* 2 seconds that start with a full bucket and a chunk whose wait is over
C19_Witness ==
    /\ lim.limit > 1
    /\ Len(lim.hist) = 2 * lim.limit
    /\ SumSeq(lim.hist) = 4 * lim.limit - 1

\* ------------------------------------------ HttpDownloadState (package main)
\* MaxGo: the goroutines Start may launch; StackBytesPerSec: the 5*si.Mega of
\* NewReaderStack, in bytes of the model
MaxGo == 1
StackBytesPerSec == 1
\* the length of the resource the server of s.url holds
StateSize == 3

\* what http.DefaultClient.Do can give back to makeRequest for a request with
\* the given Range offset (-1: no Range header); the body may end early
StateResponses(range) ==
    LET start == IF range >= 0 THEN Min(range, StateSize) ELSE 0
        full == StateSize - start
    IN  {NetErr}
        \cup {Resp(404, 0, FALSE, <<>>, 0, 0)}
        \cup {Resp(200, StateSize, TRUE, <<>>, 0, bl) : bl \in {StateSize, StateSize - 1}}
        \cup {Resp(StatusPartialContent, full, TRUE,
                   <<Tok("bytes ", 0), Tok("num", start), Tok("-", 0),
                     Tok("num", StateSize - 1), Tok("/", 0), Tok("num", StateSize)>>,
                   start, bl) : bl \in {full, Max(0, full - 1)}}

\* io.Copy reads a buffer of 32 KiB at a time, less than the limiter's burst
CopyChunk == Min(BufSize, StackBytesPerSec)

\* s.respReader.Read(buf): up to len(buf) of the avail bytes left in the body
CopyReads(avail) ==
    {[n |-> n, err |-> Nil] : n \in 1..Min(CopyChunk, avail)}
    \cup {[n |-> n, err |-> EOF] : n \in {k \in 0..CopyChunk : k = avail}}
    \cup {[n |-> 0, err |-> ErrRead]}

\* HttpDownloadState.setError
setErrorState(s, err) ==
    [s EXCEPT !.err = err, !.status = IF err = Nil THEN Completed ELSE Error]

\* HttpDownloadState.startDownload with makeRequest; fs: the outcome of os.OpenFile
startDownloadState(s, resp, fs) ==
    IF resp = NetErr
    THEN [err |-> ErrRequest, s |-> s, off |-> -1]
    ELSE IF resp.StatusCode < 200 \/ resp.StatusCode > 299
    THEN [err |-> ErrStatusCode, s |-> s, off |-> -1]
    ELSE LET s1 == [s EXCEPT !.size = resp.ContentLength, !.downloaded = 0,
                             !.left = resp.ContentLength]
         IN  IF fs /= Nil
             THEN [err |-> fs, s |-> s1, off |-> -1]
             ELSE [err |-> Nil, s |-> [s1 EXCEPT !.open = @ + 1], off |-> 0]

\* HttpDownloadState.resumeDownloading with makeRequest; fs: Nil, ErrOpen or
\* ErrSeek. The Content-Range is split at "/", "-" and " ": its total is the
\* number after "/", its offset the number after "bytes ".
resumeDownloadingState(s, resp, fs) ==
    IF fs = ErrOpen
    THEN [err |-> ErrOpen, s |-> s, off |-> -1]
    ELSE LET s1 == [s EXCEPT !.open = @ + 1]
         IN  IF resp = NetErr
             THEN [err |-> ErrRequest, s |-> s1, off |-> 0]
             ELSE IF resp.StatusCode < 200 \/ resp.StatusCode > 299
             THEN [err |-> ErrStatusCode, s |-> s1, off |-> 0]
             ELSE IF Len(resp.ContentRange) /= 6
             THEN [err |-> ErrContentRange, s |-> s1, off |-> 0]
             ELSE LET total == resp.ContentRange[6].v
                      offset == resp.ContentRange[2].v
                      s2 == [s1 EXCEPT !.size = total]
                  IN  IF fs = ErrSeek
                      THEN [err |-> ErrSeek, s |-> s2, off |-> 0]
                      ELSE [err |-> Nil,
                            s |-> [s2 EXCEPT !.downloaded = offset, !.left = total - offset],
                            off |-> offset]

\* a goroutine of Start. paused, status: the values of s.paused and s.status
\* its unsynchronized reads return; avail: the bytes left in the body;
\* length: FixedLengthReader.length; tokens: the limiter's bucket; n: the chunk
\* WaitN holds; fileOff: the offset of its destination file, -1 before it is
\* opened; exit: how its io.Copy ended
NewGoroutine(paused, status) ==
    [pc |-> "begin", paused |-> paused, status |-> status, avail |-> 0, length |-> 0,
     tokens |-> 0, n |-> 0, fileOff |-> -1, exit |-> "none"]

StackLimiter(g) ==
    [limit |-> StackBytesPerSec, burst |-> StackBytesPerSec, tokens |-> g.tokens]

InitState ==
    /\ TaskIdle
    /\ fault = "none"
    /\ parse = NoParse
    /\ flr = NoReader
    /\ lim = NoLimiter
    /\ state = NoState
    /\ goroutines = <<>>

\* HttpDownloadState.Start
HttpDownloadStateStart ==
    /\ IF state.status = Paused
       THEN /\ state' = [state EXCEPT !.status = Started, !.paused = FALSE, !.last = NoLast]
            /\ UNCHANGED goroutines
       ELSE /\ Len(goroutines) < MaxGo
            /\ state' = [state EXCEPT !.err = Nil, !.status = Started, !.last = NoLast]
            /\ goroutines' = Append(goroutines, NewGoroutine(state.paused, Started))
    /\ UNCHANGED <<vars, fault, parse, flr, lim>>

\* HttpDownloadState.Stop
HttpDownloadStateStop ==
    /\ state' = [state EXCEPT !.status = Waiting, !.last = NoLast]
    /\ UNCHANGED <<vars, fault, parse, flr, lim, goroutines>>

\* HttpDownloadState.Pause
HttpDownloadStatePause ==
    /\ state' = [state EXCEPT !.status = Paused, !.paused = TRUE, !.last = NoLast]
    /\ UNCHANGED <<vars, fault, parse, flr, lim, goroutines>>

\* the writes of Start, Stop and Pause to s.paused and s.status reach the
\* goroutine k: nothing orders them with its reads
Observe(k) ==
    /\ goroutines[k].pc /= "done"
    /\ goroutines[k].paused /= state.paused \/ goroutines[k].status /= state.status
    /\ goroutines' = [goroutines EXCEPT ![k].paused = state.paused,
                                        ![k].status = state.status]
    /\ state' = [state EXCEPT !.last = NoLast]
    /\ UNCHANGED <<vars, fault, parse, flr, lim>>

\* download of goroutine k up to io.Copy: the request, the destination file,
\* NewReaderStack; an error goes back to the func of Start, which calls setError
downloadBegin(k) ==
    /\ goroutines[k].pc = "begin"
    /\ \E resp \in StateResponses(IF state.resumable THEN state.downloaded ELSE -1),
          fs \in {Nil, ErrOpen, ErrSeek} :
          /\ fs = ErrSeek => state.resumable
          /\ LET r == IF state.resumable
                      THEN resumeDownloadingState(state, resp, fs)
                      ELSE startDownloadState(state, resp, fs)
                 g == [goroutines[k] EXCEPT !.fileOff = r.off]
             IN  IF r.err /= Nil
                 THEN /\ state' = [setErrorState(r.s, r.err) EXCEPT !.last = NoLast]
                      /\ goroutines' = [goroutines EXCEPT ![k] =
                            [g EXCEPT !.pc = "defer", !.status = Error, !.exit = "error"]]
                 ELSE /\ state' = [r.s EXCEPT !.last = NoLast]
                      /\ goroutines' = [goroutines EXCEPT ![k] =
                            [g EXCEPT !.pc = "copy", !.avail = resp.bodyLen,
                                      !.length = r.s.left,
                                      !.tokens = NewSpeedLimiter(StackBytesPerSec).tokens]]
    /\ UNCHANGED <<vars, fault, parse, flr, lim>>

\* io.Copy got (n, err) with err /= nil from the reader stack: it writes the
\* n bytes and returns, nil for io.EOF; download sets the status
copyEnd(k, g, n, err, s) ==
    \E werr \in {Nil, ErrWrite} :
        /\ n = 0 => werr = Nil
        /\ LET e == IF werr /= Nil THEN werr ELSE IF err = EOF THEN Nil ELSE err
               s1 == IF e = Nil
                     THEN [s EXCEPT !.err = Nil, !.status = Completed]
                     ELSE setErrorState(s, e)
           IN  /\ state' = [s1 EXCEPT !.last = [op |-> "Read", g |-> k, n |-> n, err |-> err]]
               /\ goroutines' = [goroutines EXCEPT ![k] =
                     [g EXCEPT !.pc = "defer", !.status = s1.status,
                               !.fileOff = IF werr = Nil THEN @ + n ELSE @,
                               !.exit = IF err = StopReadingErr THEN "stop"
                                        ELSE IF e = Nil THEN "eof" ELSE "error"]]

\* CallbackReader.Read after its inner Read returned (n, nil): the callback of
\* NewReaderStack counts n and tests s.status; io.Copy writes what Read returns
callback(k, g, n) ==
    LET s == [state EXCEPT !.left = @ - n, !.downloaded = @ + n]
    IN  IF g.status = Waiting
        THEN copyEnd(k, g, 0, StopReadingErr, s)
        ELSE \E werr \in {Nil, ErrWrite} :
                IF werr /= Nil
                THEN /\ state' = [setErrorState(s, werr) EXCEPT
                                     !.last = [op |-> "Read", g |-> k, n |-> n, err |-> Nil]]
                     /\ goroutines' = [goroutines EXCEPT ![k] =
                           [g EXCEPT !.pc = "defer", !.status = Error, !.exit = "error"]]
                ELSE /\ state' = [s EXCEPT
                                     !.last = [op |-> "Read", g |-> k, n |-> n, err |-> Nil]]
                     /\ goroutines' = [goroutines EXCEPT ![k] =
                           [g EXCEPT !.pc = "copy", !.fileOff = @ + n]]

\* one Read of the reader stack by the io.Copy of goroutine k, up to its
\* return or to the wait of WaitN
copyRead(k) ==
    /\ goroutines[k].pc = "copy"
    /\ LET g == goroutines[k]
       IN  IF g.paused
           THEN /\ state' = [state EXCEPT !.last = [op |-> "Read", g |-> k, n |-> 0, err |-> Nil]]
                /\ UNCHANGED goroutines
           ELSE \E rd \in CopyReads(g.avail) :
                   LET frd == FixedLengthReaderRead(g.length, rd)
                       g1 == [g EXCEPT !.avail = @ - rd.n, !.length = frd.length]
                       r == WaitNReserve(StackLimiter(g), frd.n)
                   IN  IF frd.err /= Nil
                       THEN copyEnd(k, g1, frd.n, frd.err, state)
                       ELSE IF r.err /= Nil
                       THEN copyEnd(k, g1, frd.n, r.err, state)
                       ELSE IF r.wait
                       THEN /\ goroutines' = [goroutines EXCEPT ![k] =
                                  [g1 EXCEPT !.pc = "wait", !.tokens = r.tokens, !.n = frd.n]]
                            /\ state' = [state EXCEPT !.last = NoLast]
                       ELSE callback(k, [g1 EXCEPT !.tokens = r.tokens], frd.n)
    /\ UNCHANGED <<vars, fault, parse, flr, lim>>

\* limiter.WaitN(context.Background(), n) of goroutine k returns: its tokens
\* have come
waitReturn(k) ==
    /\ goroutines[k].pc = "wait"
    /\ goroutines[k].tokens >= 0
    /\ callback(k, [goroutines[k] EXCEPT !.n = 0], goroutines[k].n)
    /\ UNCHANGED <<vars, fault, parse, flr, lim>>

\* the deferred func of Start's goroutine: recover() is nil, so setError(nil)
deferRecover(k) ==
    /\ goroutines[k].pc = "defer"
    /\ state' = [setErrorState(state, Nil) EXCEPT !.last = NoLast]
    /\ goroutines' = [goroutines EXCEPT ![k] = [@ EXCEPT !.pc = "done", !.status = Completed]]
    /\ UNCHANGED <<vars, fault, parse, flr, lim>>

\* one token's time passes
StackTick ==
    /\ goroutines' = [k \in DOMAIN goroutines |->
          IF goroutines[k].pc \in {"copy", "wait"}
          THEN [goroutines[k] EXCEPT
                  !.tokens = LimiterAdvance(StackLimiter(goroutines[k])).tokens]
          ELSE goroutines[k]]
    /\ goroutines' /= goroutines
    /\ state' = [state EXCEPT !.last = NoLast]
    /\ UNCHANGED <<vars, fault, parse, flr, lim>>

NextState ==
    \/ HttpDownloadStateStart
    \/ HttpDownloadStateStop
    \/ HttpDownloadStatePause
    \/ StackTick
    \/ \E k \in DOMAIN goroutines : Observe(k)
    \/ \E k \in DOMAIN goroutines : downloadBegin(k)
    \/ \E k \in DOMAIN goroutines : copyRead(k)
    \/ \E k \in DOMAIN goroutines : waitReturn(k)
    \/ \E k \in DOMAIN goroutines : deferRecover(k)

SpecState == InitState /\ [][NextState]_<<vars, others>>


\* ------------------------------------------- claims on HttpDownloadState
\* C11: Stop is never classified as an error: the StopReadingErr the callback
\* stage returns after Stop() is never stored as the error of the download,
\* and a download whose read loop it ended is not in the Error status.
C11_StopNotError ==
    /\ state.err /= StopReadingErr
    /\ \A k \in DOMAIN goroutines :
          goroutines[k].exit = "stop" /\ goroutines[k].pc = "defer"
              => state.status /= Error

\* C12: the wait of WaitN observes cancellation: whenever a goroutine is
\* blocked in WaitN and Stop() has set the status to Waiting, the wait can end
\* at once, whatever the tokens of the bucket.
C12_WaitCancellable ==
    \A k \in DOMAIN goroutines :
        goroutines[k].pc = "wait" /\ state.status = Waiting => ENABLED waitReturn(k)

\* C17: while s.paused is set, a Read io.Copy invokes on the reader stack
\* returns 0 bytes and a nil error, reaches neither the limiter nor the
\* source, and leaves the downloaded and left counters, the file and the
\* goroutine as they are.
C17_PausedReadIdle ==
    [][(/\ state.paused
        /\ state'.last.op = "Read"
        /\ goroutines[state'.last.g].pc = "copy")
          => /\ state'.last.n = 0
             /\ state'.last.err = Nil
             /\ state'.downloaded = state.downloaded
             /\ state'.left = state.left
             /\ state'.open = state.open
             /\ goroutines' = goroutines]_<<vars, others>>


\* ------------------------------------------ aggregated progress of the Task
\* HttpDownloadTask.GetDownloaded, GetTotal
GetDownloaded == dtDownloaded
GetTotal == dtTotal

RECURSIVE SumFiles(_, _)
\* the sum of field(files[i]) over the Files 1..n
SumFiles(n, total) ==
    IF n = 0 THEN 0
    ELSE SumFiles(n - 1, total)
         + (IF total THEN files[n].Total ELSE files[n].Downloaded)

\* C21: at every observation point of a Task that has its Files, the aggregated
\* progress of the Task is the sum over its Files: GetDownloaded() is the sum
\* of Files[i].Downloaded and GetTotal() the sum of Files[i].Total.
C21_AggregateProgress ==
    ctor = "ready" =>
        /\ GetDownloaded = SumFiles(NFiles, FALSE)
        /\ GetTotal = SumFiles(NFiles, TRUE)


\* C22: when the download a Start() launched fails (request error, bad status,
\* file error, or the stream ends while bytes are still expected), then once
\* its goroutine has finished, deferred handler included, the status is Error
\* and the error is the failure, not nil.
C22_FailureReported ==
    [][\A k \in DOMAIN goroutines :
          (/\ goroutines[k].exit = "error"
           /\ goroutines[k].pc = "defer"
           /\ goroutines'[k].pc = "done")
             => state'.status = Error /\ state'.err /= Nil]_<<vars, others>>


\* ------------------------------------- HttpDownloadState, fair scheduling
\* the goroutines of Start keep running, time passes and the writes of the
\* callers reach them; the callers of Start, Stop and Pause are free
FairState ==
    /\ WF_<<vars, others>>(StackTick)
    /\ \A k \in 1..MaxGo :
          /\ WF_<<vars, others>>(k \in DOMAIN goroutines /\ Observe(k))
          /\ WF_<<vars, others>>(k \in DOMAIN goroutines /\ downloadBegin(k))
          /\ WF_<<vars, others>>(k \in DOMAIN goroutines /\ copyRead(k))
          /\ WF_<<vars, others>>(k \in DOMAIN goroutines /\ waitReturn(k))
          /\ WF_<<vars, others>>(k \in DOMAIN goroutines /\ deferRecover(k))

SpecStateFair == InitState /\ [][NextState]_<<vars, others>> /\ FairState

\* C23: Stop() takes effect from Started and from Paused: when the status is
\* Waiting while the io.Copy of a goroutine is running, pause signal set or
\* not, the loop eventually ends, unless a later call of Start or Pause has
\* changed the status again.
C23_StopTerminates ==
    \A k \in 1..MaxGo :
        (/\ k \in DOMAIN goroutines
         /\ goroutines[k].pc \in {"copy", "wait"}
         /\ state.status = Waiting)
          ~> (\/ k \in DOMAIN goroutines /\ goroutines[k].pc \in {"defer", "done"}
              \/ state.status /= Waiting)


\* C24: between two iterations of the read loop and after it has ended by the
\* stop signal or at the end of the stream, the downloaded counter is the
\* number of bytes written to the destination file, so that it is a valid
\* resume offset: nothing is counted without being written and nothing
\* written is left uncounted.
C24_DownloadedIsWritten ==
    \A k \in DOMAIN goroutines :
        (/\ goroutines[k].pc \in {"copy", "defer", "done"}
         /\ goroutines[k].exit \in {"none", "stop", "eof"}
         /\ goroutines[k].fileOff >= 0)
            => state.downloaded = goroutines[k].fileOff


\* C25: for every nonzero rate limit, below the chunk of the read loop too,
\* the speed-limit stage ends up admitting every chunk read from the source:
\* WaitN never answers a chunk with an error.
C25_ChunkAdmitted ==
    lim.limit /= 0 => lim.out /= "rejected"
====
